---- MODULE Spec2Model ----
(***************************************************************************)
(* The driver-side dependency graph of lib/Driver/                         *)
(* ExperimentalDependencyDriverGraph.cpp: integration of one frontend      *)
(* graph (the snapshot of one swiftdeps file) into the DriverGraph, and    *)
(* the traversals that answer which jobs must be rebuilt.                  *)
(***************************************************************************)
EXTENDS Integers, Sequences, FiniteSets, TLC

\* ------------------------------------------------------------------------
\* Bounds of the model.
\* ------------------------------------------------------------------------
\* Number of calls made on the graph in one session.
MaxCalls == 3
\* Number of calls of a session of cascades.
MaxChainCalls == 4
\* Number of nodes of one frontend graph.
MaxNodes == 2
\* Number of def-use arcs of one frontend graph.
MaxArcs == 1

\* ------------------------------------------------------------------------
\* Values.
\* ------------------------------------------------------------------------
\* The jobs of the compilation; a job is identified with the name of its
\* swiftdeps file (getSwiftDeps(job)).
Jobs == {"A", "B", "C"}

\* The bucket of nodeMap that holds the nodes without a swiftDeps
\* (nodeMap.find("", key)); also the swiftDeps of an integrand that has none.
NoSwiftDeps == ""

\* The absent Optional<std::string> fingerprint.
NoFingerprint == "nofp"
Fingerprints == {NoFingerprint, "f1", "f2"}

\* No node at a place of nodeMap.
None == "None"
\* The None of Optional<DriverNode *>; a node is the pair of the swiftDeps it
\* is filed under and its key.
NoNode == <<>>

\* DependencyKey: kind, aspect and name. A key is written by a short string;
\* its parts are looked up.
keyE == "Ke"
keyA == "Ka"
keyB == "Kb"
keyC == "Kc"
Keys == {keyE, keyA, keyB, keyC}

getKind(key) == IF key = keyE THEN "externalDepend" ELSE "topLevel"
getAspect(key) == IF key = keyC THEN "implementation" ELSE "interface"
getName(key) ==
  IF key = keyE THEN "e" ELSE IF key = keyA THEN "a"
  ELSE IF key = keyB THEN "b" ELSE "c"

isInterface(key) == getAspect(key) = "interface"

\* DependencyKey::createDependedUponKey<NodeKind::externalDepend>(name): the
\* interface key of kind externalDepend with this name.
createDependedUponKey(name) ==
  CHOOSE k \in Keys : /\ getKind(k) = "externalDepend"
                      /\ getAspect(k) = "interface"
                      /\ getName(k) = name

ExternalNames == {getName(k) : k \in {x \in Keys : getKind(x) = "externalDepend"}}

SwiftDeps == Jobs \cup {NoSwiftDeps}

UpToDate == "UpToDate"
AffectsDownstream == "AffectsDownstream"
HadError == "HadError"

\* ------------------------------------------------------------------------
\* State of a DriverGraph.
\* ------------------------------------------------------------------------
VARIABLES
  nodeMap,               \* swiftDeps -> key -> fingerprint of the node, or None
  nodeMapKey1s,          \* the swiftDeps that have a submap in nodeMap
  usesByDef,             \* key of a def -> keys of its uses
  externalDependencies,  \* names of the external dependencies
  cascadingJobs,         \* swiftDeps of the jobs marked as cascading
  jobsBySwiftDeps,       \* swiftDeps of the jobs that are tracked
  dotFileSequenceNumberByJob,  \* job -> number of dot files emitted for it
  failed,                \* the assertion that ended the process, or ""
  call                   \* the last call made and what it returned

vars == <<nodeMap, nodeMapKey1s, usesByDef, externalDependencies, cascadingJobs,
          jobsBySwiftDeps, dotFileSequenceNumberByJob, failed, call>>

\* ------------------------------------------------------------------------
\* The two-stage node map.
\* ------------------------------------------------------------------------
EmptyNodeMap == [sd \in SwiftDeps |-> [k \in Keys |-> None]]

\* nodeMap.find(swiftDeps, key): the node, or NoNode.
find(nm, swiftDeps, key) ==
  IF nm[swiftDeps][key] # None THEN <<swiftDeps, key>> ELSE NoNode

\* nodeMap[key]: the swiftDeps under which a node with this key is filed.
nodesMatching(nm, key) == {sd \in SwiftDeps : nm[sd][key] # None}

\* nodeMap[swiftDeps]: the keys of the nodes filed under swiftDeps.
nodesOf(nm, swiftDeps) == {k \in Keys : nm[swiftDeps][k] # None}

\* The first keys of nodeMap, which forEachKey1 walks: a submap is made by
\* nodeMap[swiftDeps] and by the insertion of a node, and stays when its last
\* node is erased. key1s holds the submaps made before, nm the nodes.
key1sOf(nm, key1s) ==
  key1s \cup {sd \in SwiftDeps : nodesOf(nm, sd) # {}}

addToMap(nm, swiftDeps, key, fingerprint) ==
  [nm EXCEPT ![swiftDeps][key] = fingerprint]

eraseNodeFromMap(nm, swiftDeps, key) == [nm EXCEPT ![swiftDeps][key] = None]

\* eraseNodeFromMap(n); n->setSwiftDeps(to); addToMap(n)
moveNodeToDifferentFile(nm, node, to) ==
  addToMap(eraseNodeFromMap(nm, node[1], node[2]), to, node[2],
           nm[node[1]][node[2]])

\* DriverNode::integrateFingerprintFrom, which the header defines: the
\* fingerprint is replaced, and the node counts as changed when the
\* fingerprints differ or one is absent.  The frontend graphs of the
\* specifications give every Decl a fingerprint, so that a node found in place
\* and its integrand both have one, and changed means that the two differ.
fingerprintChanged(old, new) ==
  old # new \/ old = NoFingerprint \/ new = NoFingerprint

integrateFingerprintFrom(nm, node, integrand) ==
  [nodeMap |-> addToMap(nm, node[1], node[2], integrand.fingerprint),
   changed |-> fingerprintChanged(nm[node[1]][node[2]], integrand.fingerprint)]

\* ------------------------------------------------------------------------
\* DriverGraph::verify, as far as it reads the state modelled here.
\* ------------------------------------------------------------------------
\* ensureJobIsTracked(swiftDeps): the empty swiftDeps needs no job.
ensureJobIsTracked(jobs, swiftDeps) ==
  swiftDeps = NoSwiftDeps \/ swiftDeps \in jobs

\* The assertion of verify that fails first, or "": the nodes are walked
\* before the first keys.
verify(nm, key1s, extDeps, jobs) ==
  IF \E sd \in SwiftDeps : \E k \in nodesOf(nm, sd) :
       getKind(k) = "externalDepend" /\ getName(k) \notin extDeps
  THEN "Ensure each external dependency is tracked exactly once"
  ELSE IF \E sd \in key1sOf(nm, key1s) : ~ensureJobIsTracked(jobs, sd)
  THEN "All jobs should be tracked."
  ELSE ""

\* ------------------------------------------------------------------------
\* Integrating a FrontendGraph into the DriverGraph.
\* A frontend graph g is [swiftDeps, nodes, arcs]: nodes is the sequence
\* g.forEachNode walks, each node [key, swiftDeps, fingerprint]; arcs is the
\* set of <<def key, use key>> that g.forEachUseOf reports.
\* ------------------------------------------------------------------------
\* assertImplementationsMustBeInFiles of a node.
assertImplementationsMustBeInFiles(n) ==
  n.swiftDeps # NoSwiftDeps \/ isInterface(n.key)

\* The node is added after the assertion.
integrateByCreatingANewNode(nm, integrand) ==
  IF assertImplementationsMustBeInFiles(integrand)
  THEN [nodeMap |-> addToMap(nm, integrand.swiftDeps, integrand.key,
                             integrand.fingerprint),
        failed |-> ""]
  ELSE [nodeMap |-> nm, failed |-> "Implementations must be in some file."]

\* integrateFrontendDeclNode that creates a node where it should move the
\* node without a file.
integrateFrontendDeclNode_NoMove(nm, integrand, preexistingNodeInPlace, preexistingExpat) ==
  IF preexistingNodeInPlace # NoNode
  THEN [nodeMap |-> integrateFingerprintFrom(nm, preexistingNodeInPlace,
                                             integrand).nodeMap,
        changed |-> integrateFingerprintFrom(nm, preexistingNodeInPlace,
                                             integrand).changed,
        failed |-> ""]
  ELSE [nodeMap |-> integrateByCreatingANewNode(nm, integrand).nodeMap,
        changed |-> TRUE,
        failed |-> integrateByCreatingANewNode(nm, integrand).failed]

integrateFrontendDeclNode(nm, integrand, preexistingNodeInPlace, preexistingExpat) ==
  IF preexistingNodeInPlace # NoNode
  THEN [nodeMap |-> integrateFingerprintFrom(nm, preexistingNodeInPlace,
                                             integrand).nodeMap,
        changed |-> integrateFingerprintFrom(nm, preexistingNodeInPlace,
                                             integrand).changed,
        failed |-> ""]
  ELSE IF preexistingExpat # NoNode
  THEN LET moved == moveNodeToDifferentFile(nm, preexistingExpat,
                                            integrand.swiftDeps)
       IN  [nodeMap |-> integrateFingerprintFrom(
                          moved, <<integrand.swiftDeps, integrand.key>>,
                          integrand).nodeMap,
            changed |-> TRUE,
            failed |-> ""]
  ELSE [nodeMap |-> integrateByCreatingANewNode(nm, integrand).nodeMap,
        changed |-> TRUE,
        failed |-> integrateByCreatingANewNode(nm, integrand).failed]

\* integrateFrontendExpatNode that returns true where nothing is to be done.
integrateFrontendExpatNode_Changed(nm, integrand, swiftDepsOfFrontendGraph, preexistingNodeInPlace, preexistingExpat, dupsExistInOtherFiles) ==
  IF dupsExistInOtherFiles \/ preexistingExpat # NoNode
  THEN [nodeMap |-> nm, changed |-> TRUE,
        failed |-> IF integrand.fingerprint # NoFingerprint
                   THEN "If extra-file dependencies were to have fingerprints, would need to do something more."
                   ELSE ""]
  ELSE IF preexistingNodeInPlace # NoNode
  THEN [nodeMap |-> moveNodeToDifferentFile(
                      integrateFingerprintFrom(nm, preexistingNodeInPlace,
                                               integrand).nodeMap,
                      preexistingNodeInPlace, NoSwiftDeps),
        changed |-> TRUE, failed |-> ""]
  ELSE [nodeMap |-> integrateByCreatingANewNode(nm, integrand).nodeMap,
        changed |-> TRUE,
        failed |-> integrateByCreatingANewNode(nm, integrand).failed]

integrateFrontendExpatNode(nm, integrand, swiftDepsOfFrontendGraph, preexistingNodeInPlace, preexistingExpat, dupsExistInOtherFiles) ==
  IF dupsExistInOtherFiles \/ preexistingExpat # NoNode
  THEN [nodeMap |-> nm, changed |-> FALSE,
        failed |-> IF integrand.fingerprint # NoFingerprint
                   THEN "If extra-file dependencies were to have fingerprints, would need to do something more."
                   ELSE ""]
  ELSE IF preexistingNodeInPlace # NoNode
  THEN [nodeMap |-> moveNodeToDifferentFile(
                      integrateFingerprintFrom(nm, preexistingNodeInPlace,
                                               integrand).nodeMap,
                      preexistingNodeInPlace, NoSwiftDeps),
        changed |-> TRUE, failed |-> ""]
  ELSE [nodeMap |-> integrateByCreatingANewNode(nm, integrand).nodeMap,
        changed |-> TRUE,
        failed |-> integrateByCreatingANewNode(nm, integrand).failed]

\* dupsExistInOtherFiles that never sees the Decls of other files.
dupsExistInOtherFiles_Never(preexistingNodeInPlace, preexistingExpat, preexistingCount) == FALSE

dupsExistInOtherFilesOf(preexistingNodeInPlace, preexistingExpat, preexistingCount) ==
  preexistingNodeInPlace = NoNode /\ preexistingExpat = NoNode
    /\ preexistingCount # 0

integrateFrontendNode(nm, integrand, swiftDepsOfFrontendGraph, preexistingNodeInPlace) ==
  LET key == integrand.key
      preexistingExpat ==
        IF preexistingNodeInPlace # NoNode THEN NoNode
        ELSE find(nm, NoSwiftDeps, key)
      preexistingCount == Cardinality(nodesMatching(nm, key))
      dupsExistInOtherFiles ==
        dupsExistInOtherFilesOf(preexistingNodeInPlace, preexistingExpat,
                                preexistingCount)
  IN  IF preexistingExpat # NoNode /\ preexistingCount # 1
      THEN [nodeMap |-> nm, changed |-> FALSE,
            failed |-> "If there is an expat, must not be any Decls in files."]
      ELSE IF integrand.swiftDeps # NoSwiftDeps
      THEN integrateFrontendDeclNode(nm, integrand, preexistingNodeInPlace,
                                     preexistingExpat)
      ELSE integrateFrontendExpatNode(nm, integrand, swiftDepsOfFrontendGraph,
             preexistingNodeInPlace, preexistingExpat, dupsExistInOtherFiles)

\* g.forEachUseOf(n, ...): the keys of the uses of n in the frontend graph.
usesInFrontendGraph(g, def) == {a[2] : a \in {x \in g.arcs : x[1] = def}}

\* integrateUsesByDef that forgets the uses recorded before.
integrateUsesByDef_Replace(ubd, n, g) ==
  [ubd EXCEPT ![n.key] = {use \in usesInFrontendGraph(g, n.key) :
                            use # n.key}]

integrateUsesByDef(ubd, n, g) ==
  [ubd EXCEPT ![n.key] = @ \cup {use \in usesInFrontendGraph(g, n.key) :
                                   use # n.key}]

\* The body of the loop of integrate for one integrand, after the call of
\* integrateFrontendNode, which returned r. s carries the graph,
\* disappearedNodes, changedNodes and the assertion that failed, if any.
\* The body of the loop of integrate that inserts a changed key only while
\* changedNodes is empty.
integrateOneAfter_FirstChangeOnly(s, integrand, ubd, disappeared, extDeps, r, jobs) ==
  IF r.failed # ""
  THEN [s EXCEPT !.usesByDef = ubd, !.disappearedNodes = disappeared,
                 !.failed = r.failed]
  ELSE [nodeMap |-> r.nodeMap,
        usesByDef |-> ubd,
        key1s |-> key1sOf(r.nodeMap, s.key1s),
        externalDependencies |-> extDeps,
        disappearedNodes |-> disappeared,
        changedNodes |-> IF r.changed /\ s.changedNodes = {}
                         THEN {integrand.key} ELSE s.changedNodes,
        failed |-> verify(r.nodeMap, s.key1s, extDeps, jobs)]

integrateOneAfter(s, integrand, ubd, disappeared, extDeps, r, jobs) ==
  IF r.failed # ""
  THEN [s EXCEPT !.usesByDef = ubd, !.disappearedNodes = disappeared,
                 !.failed = r.failed]
  ELSE [nodeMap |-> r.nodeMap,
        usesByDef |-> ubd,
        key1s |-> key1sOf(r.nodeMap, s.key1s),
        externalDependencies |-> extDeps,
        disappearedNodes |-> disappeared,
        changedNodes |-> IF r.changed THEN s.changedNodes \cup {integrand.key}
                         ELSE s.changedNodes,
        failed |-> verify(r.nodeMap, s.key1s, extDeps, jobs)]

\* The body of the loop of integrate for one integrand, once the node in
\* place, if any, is found.
\* The body of the loop of integrate without the insertion into
\* externalDependencies.
integrateOneInPlace_Untracked(s, integrand, g, jobs, prexistingNodeInPlace) ==
  integrateOneAfter(
    s, integrand,
    integrateUsesByDef(s.usesByDef, integrand, g),
    IF prexistingNodeInPlace # NoNode
    THEN s.disappearedNodes \ {integrand.key} ELSE s.disappearedNodes,
    s.externalDependencies,
    integrateFrontendNode(s.nodeMap, integrand, g.swiftDeps,
                          prexistingNodeInPlace),
    jobs)

integrateOneInPlace(s, integrand, g, jobs, prexistingNodeInPlace) ==
  integrateOneAfter(
    s, integrand,
    integrateUsesByDef(s.usesByDef, integrand, g),
    IF prexistingNodeInPlace # NoNode
    THEN s.disappearedNodes \ {integrand.key} ELSE s.disappearedNodes,
    IF getKind(integrand.key) = "externalDepend"
    THEN s.externalDependencies \cup {getName(integrand.key)}
    ELSE s.externalDependencies,
    integrateFrontendNode(s.nodeMap, integrand, g.swiftDeps,
                          prexistingNodeInPlace),
    jobs)

\* The body of the loop of integrate for one integrand.
integrateOne(s, integrand, g, jobs) ==
  IF verify(s.nodeMap, s.key1s, s.externalDependencies, jobs) # ""
  THEN [s EXCEPT !.failed = verify(s.nodeMap, s.key1s,
                                   s.externalDependencies, jobs)]
  ELSE integrateOneInPlace(
         s, integrand, g, jobs,
         IF integrand.swiftDeps # NoSwiftDeps
         THEN find(s.nodeMap, integrand.swiftDeps, integrand.key)
         ELSE NoNode)

RECURSIVE integrateFrom(_, _, _, _)
integrateFrom(s, g, i, jobs) ==
  IF i > Len(g.nodes) \/ s.failed # "" THEN s
  ELSE integrateFrom(integrateOne(s, g.nodes[i], g, jobs), g, i + 1, jobs)

\* The loop over disappearedNodes that removes nothing.
removeNodes_Keep(nm, swiftDeps, keys) == nm

\* removeNode for every node left in disappearedNodes.
RECURSIVE removeNodes(_, _, _)
removeNodes(nm, swiftDeps, keys) ==
  IF keys = {} THEN nm
  ELSE LET k == CHOOSE x \in keys : TRUE
       IN  removeNodes(eraseNodeFromMap(nm, swiftDeps, k), swiftDeps,
                       keys \ {k})

\* The end of integrate, from the state s that its first loop leaves: the
\* disappeared nodes are removed and count as changed.
integrateDisappeared(s, g) ==
  IF s.failed # ""
  THEN [nodeMap |-> s.nodeMap, key1s |-> s.key1s, usesByDef |-> s.usesByDef,
        externalDependencies |-> s.externalDependencies,
        changedNodes |-> s.changedNodes, result |-> None,
        failed |-> s.failed]
  ELSE [nodeMap |-> removeNodes(s.nodeMap, g.swiftDeps, s.disappearedNodes),
        key1s |-> s.key1s,
        usesByDef |-> s.usesByDef,
        externalDependencies |-> s.externalDependencies,
        changedNodes |-> s.changedNodes \cup s.disappearedNodes,
        result |-> IF s.changedNodes \cup s.disappearedNodes = {}
                   THEN UpToDate ELSE AffectsDownstream,
        failed |-> ""]

\* DriverGraph::integrate. Returns the new graph, the changed keys and the
\* LoadResult. nodeMap[swiftDeps] makes the submap of the file of g.
integrate(nm, key1s, ubd, extDeps, jobs, g) ==
  integrateDisappeared(
    integrateFrom([nodeMap |-> nm,
                   key1s |-> key1sOf(nm, key1s \cup {g.swiftDeps}),
                   usesByDef |-> ubd,
                   externalDependencies |-> extDeps,
                   disappearedNodes |-> nodesOf(nm, g.swiftDeps),
                   changedNodes |-> {}, failed |-> ""],
                  g, 1, jobs),
    g)

\* ------------------------------------------------------------------------
\* Traversal.
\* ------------------------------------------------------------------------
\* DriverGraph::forEachUseOf: every node, in a file or not, whose key is a
\* use of the key of def.
forEachUseOf(nm, ubd, def) ==
  {n \in SwiftDeps \X Keys : n[2] \in ubd[def[2]] /\ nm[n[1]][n[2]] # None}

\* rememberThatJobCascades(swiftDeps) for the use u of a def of swiftDeps.
rememberIfInterface(cascading, swiftDeps, u) ==
  IF isInterface(u[2]) THEN cascading \cup {swiftDeps} ELSE cascading

\* t is [visited, expanded, cascadingJobs, failed]: the set of visited nodes,
\* the nodes that got past the test of visited, in that order, the jobs
\* marked as cascading, and the assertion that failed, if any.
RECURSIVE checkTransitiveClosureForCascading(_, _, _, _)
RECURSIVE visitUses(_, _, _, _, _)

\* checkTransitiveClosureForCascading that does not insert the node the
\* traversal starts from into visited.
checkTransitiveClosureForCascading_StartNotVisited(t, nm, ubd, potentiallyCascadingDef) ==
  IF t.failed # "" \/ potentiallyCascadingDef \in t.visited THEN t
  ELSE IF potentiallyCascadingDef[1] = NoSwiftDeps
  THEN [t EXCEPT !.visited = @ \cup {potentiallyCascadingDef},
                 !.expanded = Append(@, potentiallyCascadingDef),
                 !.failed = "Should only call me for Decl nodes."]
  ELSE visitUses([t EXCEPT !.visited = IF t.expanded = <<>> THEN @
                                       ELSE @ \cup {potentiallyCascadingDef},
                           !.expanded = Append(@, potentiallyCascadingDef)],
                 nm, ubd, potentiallyCascadingDef[1],
                 forEachUseOf(nm, ubd, potentiallyCascadingDef))

checkTransitiveClosureForCascading(t, nm, ubd, potentiallyCascadingDef) ==
  IF t.failed # "" \/ potentiallyCascadingDef \in t.visited THEN t
  ELSE IF potentiallyCascadingDef[1] = NoSwiftDeps
  THEN [t EXCEPT !.visited = @ \cup {potentiallyCascadingDef},
                 !.expanded = Append(@, potentiallyCascadingDef),
                 !.failed = "Should only call me for Decl nodes."]
  ELSE visitUses([t EXCEPT !.visited = @ \cup {potentiallyCascadingDef},
                           !.expanded = Append(@, potentiallyCascadingDef)],
                 nm, ubd, potentiallyCascadingDef[1],
                 forEachUseOf(nm, ubd, potentiallyCascadingDef))

\* The forEachUseOf loop that does not go on from the uses.
visitUses_NoRecursion(t, nm, ubd, swiftDeps, uses) ==
  [t EXCEPT !.cascadingJobs =
              IF \E u \in uses : isInterface(u[2]) THEN @ \cup {swiftDeps}
              ELSE @]

\* The body of the forEachUseOf loop, for the uses still to be walked.
visitUses(t, nm, ubd, swiftDeps, uses) ==
  IF uses = {} \/ t.failed # "" THEN t
  ELSE LET u == CHOOSE x \in uses : TRUE
           t1 == [t EXCEPT !.cascadingJobs =
                             rememberIfInterface(@, swiftDeps, u)]
       IN  visitUses(checkTransitiveClosureForCascading(t1, nm, ubd, u),
                     nm, ubd, swiftDeps, uses \ {u})

\* The first loop of markTransitive, for the nodes of the job still to be
\* walked.
RECURSIVE visitNodes(_, _, _, _)
visitNodes(t, nm, ubd, nodes) ==
  IF nodes = {} \/ t.failed # "" THEN t
  ELSE LET n == CHOOSE x \in nodes : TRUE
       IN  visitNodes(checkTransitiveClosureForCascading(t, nm, ubd, n),
                      nm, ubd, nodes \ {n})

\* The swiftDeps that the second loop of markTransitive copies back: those of
\* the visited nodes that have one, each once.
visitedSwiftDepsOf(visitedNodeSet) ==
  {n[1] : n \in {x \in visitedNodeSet : x[1] # NoSwiftDeps}}

\* DriverGraph::markTransitive. visited is the set of jobs appended to the
\* vector of the caller. nodeMap[swiftDeps] makes the submap of the job.
markTransitive(nm, key1s, ubd, cascading, jobs, job) ==
  LET t == visitNodes([visited |-> {}, expanded |-> <<>>,
                       cascadingJobs |-> cascading, failed |-> ""],
                      nm, ubd, {<<job, k>> : k \in nodesOf(nm, job)})
      visitedSwiftDeps == visitedSwiftDepsOf(t.visited)
  IN  [visited |-> IF t.failed # "" THEN {} ELSE visitedSwiftDeps,
       key1s |-> key1sOf(nm, key1s \cup {job}),
       visitedNodeSet |-> t.visited,
       expanded |-> t.expanded,
       cascadingJobs |-> t.cascadingJobs,
       failed |-> IF t.failed # "" THEN t.failed
                  ELSE IF ~(visitedSwiftDeps \subseteq jobs)
                  THEN "All jobs should be tracked." ELSE ""]

\* A vector of jobs is modelled by the number of times each job is in it:
\* the order of its elements is that of the iteration of unordered sets.
NoJobs == [j \in Jobs |-> 0]
pushBack(uses, js) == [j \in Jobs |-> IF j \in js THEN uses[j] + 1 ELSE uses[j]]

\* isMarked with its answer the other way round.
isMarked_Inverted(cascading, job) == job \notin cascading

isMarked(cascading, job) == job \in cascading

\* The nodes that the loops of markExternal hand to the lambda.
usersOfExternal(nm, ubd, externalDependency) ==
  {n \in SwiftDeps \X Keys :
     /\ n[2] \in ubd[createDependedUponKey(externalDependency)]
     /\ nm[n[1]][n[2]] # None}

\* The lambda of markExternal, for the nodes of order from i on. m is
\* [uses, key1s, cascadingJobs, failed].
RECURSIVE markExternalFrom(_, _, _, _, _, _)
markExternalFrom(m, nm, ubd, jobs, order, i) ==
  IF i > Len(order) \/ m.failed # "" THEN m
  ELSE LET n == order[i]
       IN  IF n[1] = NoSwiftDeps
           THEN [m EXCEPT !.failed = "getJob: no job for the node"]
           ELSE IF n[1] \notin jobs
           THEN [m EXCEPT !.failed = "All jobs should be tracked."]
           ELSE IF isMarked(m.cascadingJobs, n[1])
           THEN markExternalFrom(m, nm, ubd, jobs, order, i + 1)
           ELSE LET r == markTransitive(nm, m.key1s, ubd, m.cascadingJobs,
                                        jobs, n[1])
                IN  markExternalFrom(
                      [uses |-> pushBack(pushBack(m.uses, {n[1]}), r.visited),
                       key1s |-> r.key1s,
                       cascadingJobs |-> r.cascadingJobs,
                       failed |-> r.failed],
                      nm, ubd, jobs, order, i + 1)

\* DriverGraph::markExternal, walking the users of the external dependency in
\* the given order.
markExternal(nm, key1s, ubd, cascading, jobs, order) ==
  markExternalFrom([uses |-> NoJobs, key1s |-> key1sOf(nm, key1s),
                    cascadingJobs |-> cascading, failed |-> ""],
                   nm, ubd, jobs, order, 1)

\* The orders in which the nested loops of markExternal can walk a set of
\* nodes: key by key, the nodes of one key together.
RECURSIVE Perms(_)
Perms(S) ==
  IF S = {} THEN {<<>>}
  ELSE UNION {{<<x>> \o p : p \in Perms(S \ {x})} : x \in S}

grouped(order) ==
  \A i, j, k \in 1..Len(order) :
    (i < j /\ j < k /\ order[i][2] = order[k][2]) => order[j][2] = order[i][2]

walkOrders(S) == {order \in Perms(S) : grouped(order)}

\* ------------------------------------------------------------------------
\* The frontend graphs handed to the driver.
\* ------------------------------------------------------------------------
\* The nodes a frontend graph of swiftDeps can hold for a key: a Decl of the
\* file, with a fingerprint of fingerprints, unless the key is that of an
\* external dependency; or a dependency on a Decl that is not of the file,
\* which has an interface key and no fingerprint.
IntegrandsFor(swiftDeps, keys, fingerprints) ==
  {[key |-> k, swiftDeps |-> swiftDeps, fingerprint |-> fp] :
     k \in {x \in keys : getKind(x) # "externalDepend"}, fp \in fingerprints}
  \cup {[key |-> k, swiftDeps |-> NoSwiftDeps, fingerprint |-> NoFingerprint] :
          k \in {x \in keys : isInterface(x)}}

\* Sets of at most n elements of S.
RECURSIVE SubsetsUpTo(_, _)
SubsetsUpTo(S, n) ==
  IF n = 0 THEN {{}}
  ELSE LET smaller == SubsetsUpTo(S, n - 1)
       IN  smaller \cup {T \cup {x} : T \in smaller, x \in S}

\* The arcs a frontend graph can hold over its nodes: the use is a Decl of
\* the file.
ArcsOver(nodes) ==
  {<<d.key, u.key>> : d \in nodes,
                      u \in {x \in nodes : x.swiftDeps # NoSwiftDeps}}
  \ {<<n.key, n.key>> : n \in nodes}

\* The sets of nodes of a frontend graph of swiftDeps: no two nodes with one
\* key.
NodeSets(swiftDeps, keys, fingerprints) ==
  {x \in SubsetsUpTo(IntegrandsFor(swiftDeps, keys, fingerprints), MaxNodes) :
     \A m, n \in x : m.key = n.key => m = n}

FrontendGraphs(swiftDeps, keys, fingerprints) ==
  UNION {{[swiftDeps |-> swiftDeps, nodes |-> ns, arcs |-> as] :
            as \in SubsetsUpTo(ArcsOver(ns), MaxArcs)} :
           ns \in NodeSets(swiftDeps, keys, fingerprints)}

NoGraph == [swiftDeps |-> NoSwiftDeps, nodes |-> {}, arcs |-> {}]

\* g with its nodes in the order forEachNode walks them.
inOrder(g, order) ==
  [swiftDeps |-> g.swiftDeps, nodes |-> order, arcs |-> g.arcs]

\* ------------------------------------------------------------------------
\* The calls.
\* ------------------------------------------------------------------------
Init ==
  /\ nodeMap = EmptyNodeMap
  /\ nodeMapKey1s = {}
  /\ dotFileSequenceNumberByJob = [j \in Jobs |-> 0]
  /\ usesByDef = [k \in Keys |-> {}]
  /\ externalDependencies = {}
  /\ cascadingJobs = {}
  /\ jobsBySwiftDeps = {}
  /\ failed = ""
  /\ call = [n |-> 0, op |-> "", arg |-> "", g |-> NoGraph, again |-> FALSE,
             before |-> EmptyNodeMap, result |-> "", changedNodes |-> {},
             uses |-> NoJobs]


\* The record of a call: again says that the call before it was the same,
\* before is the node map that the call found.
called(op, arg, g, result, changedNodes, uses) ==
  [n |-> call.n + 1, op |-> op, arg |-> arg, g |-> g,
   again |-> (call.op = op /\ call.arg = arg /\ call.g = g),
   before |-> nodeMap,
   result |-> result, changedNodes |-> changedNodes, uses |-> uses]

\* loadFromPath of a file that cannot be read.
LoadFromPathUnreadable(job) ==
  /\ call' = called("loadFromPath", job, NoGraph, HadError, {}, NoJobs)
  /\ UNCHANGED <<nodeMap, nodeMapKey1s, usesByDef, externalDependencies,
                 cascadingJobs, jobsBySwiftDeps, dotFileSequenceNumberByJob,
                 failed>>

\* loadFromBuffer that tracks the job before it reads the buffer.
LoadFromBufferUnparsable_Tracked(job) ==
  /\ call' = called("loadFromBuffer", job, NoGraph, HadError, {}, NoJobs)
  /\ jobsBySwiftDeps' = jobsBySwiftDeps \cup {job}
  /\ UNCHANGED <<nodeMap, nodeMapKey1s, usesByDef, externalDependencies,
                 cascadingJobs, dotFileSequenceNumberByJob, failed>>

\* loadFromBuffer of a buffer that holds no frontend graph.
LoadFromBufferUnparsable(job) ==
  /\ call' = called("loadFromBuffer", job, NoGraph, HadError, {}, NoJobs)
  /\ UNCHANGED <<nodeMap, nodeMapKey1s, usesByDef, externalDependencies,
                 cascadingJobs, jobsBySwiftDeps, dotFileSequenceNumberByJob,
                 failed>>

\* addIndependentNode: the job is recorded under its swiftDeps.
AddIndependentNode(job) ==
  /\ jobsBySwiftDeps' = jobsBySwiftDeps \cup {job}
  /\ call' = called("addIndependentNode", job, NoGraph, "", {}, NoJobs)
  /\ UNCHANGED <<nodeMap, nodeMapKey1s, usesByDef, externalDependencies,
                 cascadingJobs, dotFileSequenceNumberByJob, failed>>

\* loadFromBuffer of a buffer that holds the frontend graph g:
\* addIndependentNode, then integrate.
loadFromBuffer(nm, key1s, ubd, extDeps, jobs, job, g) ==
  integrate(nm, key1s, ubd, extDeps, jobs \cup {job}, g)

\* loadFromPath of a file that holds the frontend graph g: a dot file and
\* verify, loadFromBuffer, a dot file and verify. emitted is the number of
\* dot files written for the job.
loadFromPath(nm, key1s, ubd, extDeps, jobs, job, g) ==
  LET r == loadFromBuffer(nm, key1s, ubd, extDeps, jobs, job, g)
  IN  IF verify(nm, key1s, extDeps, jobs) # ""
      THEN [nodeMap |-> nm, key1s |-> key1sOf(nm, key1s), usesByDef |-> ubd,
            externalDependencies |-> extDeps, changedNodes |-> {},
            result |-> None, failed |-> verify(nm, key1s, extDeps, jobs),
            jobs |-> jobs, emitted |-> 1]
      ELSE IF r.failed # ""
      THEN [nodeMap |-> r.nodeMap, key1s |-> r.key1s,
            usesByDef |-> r.usesByDef,
            externalDependencies |-> r.externalDependencies,
            changedNodes |-> r.changedNodes, result |-> r.result,
            failed |-> r.failed, jobs |-> jobs \cup {job}, emitted |-> 1]
      ELSE [nodeMap |-> r.nodeMap, key1s |-> r.key1s,
            usesByDef |-> r.usesByDef,
            externalDependencies |-> r.externalDependencies,
            changedNodes |-> r.changedNodes, result |-> r.result,
            failed |-> verify(r.nodeMap, r.key1s, r.externalDependencies,
                              jobs \cup {job}),
            jobs |-> jobs \cup {job}, emitted |-> 2]

\* loadFromPath of a file that can be read and holds no frontend graph: a
\* dot file and verify, loadFromBuffer, which returns HadError before
\* addIndependentNode, a dot file and verify.
loadFromPathUnparsable(nm, key1s, extDeps, jobs) ==
  IF verify(nm, key1s, extDeps, jobs) # ""
  THEN [result |-> None, failed |-> verify(nm, key1s, extDeps, jobs),
        emitted |-> 1]
  ELSE [result |-> HadError, failed |-> verify(nm, key1s, extDeps, jobs),
        emitted |-> 2]

LoadFromPathUnparsable(job) ==
  /\ \E r \in {loadFromPathUnparsable(nodeMap, nodeMapKey1s,
                                       externalDependencies,
                                       jobsBySwiftDeps)} :
         /\ dotFileSequenceNumberByJob' =
              [dotFileSequenceNumberByJob EXCEPT ![job] = @ + r.emitted]
         /\ failed' = r.failed
         /\ call' = called("loadFromPath", job, NoGraph, r.result, {}, NoJobs)
  /\ UNCHANGED <<nodeMap, nodeMapKey1s, usesByDef, externalDependencies,
                 cascadingJobs, jobsBySwiftDeps>>

\* verify, called from outside: it changes nothing and ends the process
\* when an assertion fails.
Verify ==
  /\ failed' = verify(nodeMap, nodeMapKey1s, externalDependencies,
                      jobsBySwiftDeps)
  /\ call' = called("verify", "", NoGraph, "", {}, NoJobs)
  /\ UNCHANGED <<nodeMap, nodeMapKey1s, usesByDef, externalDependencies,
                 cascadingJobs, jobsBySwiftDeps, dotFileSequenceNumberByJob>>

\* loadFromPath of a file that holds the frontend graph g, whose nodes come
\* in the given order.
LoadFromPath(job, g, order) ==
  /\ \E r \in {loadFromPath(nodeMap, nodeMapKey1s, usesByDef, externalDependencies,
                             jobsBySwiftDeps, job, inOrder(g, order))} :
         /\ jobsBySwiftDeps' = r.jobs
         /\ nodeMap' = r.nodeMap
         /\ nodeMapKey1s' = r.key1s
         /\ usesByDef' = r.usesByDef
         /\ externalDependencies' = r.externalDependencies
         /\ dotFileSequenceNumberByJob' =
              [dotFileSequenceNumberByJob EXCEPT ![job] = @ + r.emitted]
         /\ failed' = r.failed
         /\ call' = called("loadFromPath", job, g, r.result, r.changedNodes,
                           NoJobs)
  /\ UNCHANGED cascadingJobs

\* loadFromBuffer of a buffer that holds the frontend graph g, whose nodes
\* come in the given order: addIndependentNode, then integrate.
LoadFromBuffer(job, g, order) ==
  /\ \E r \in {loadFromBuffer(nodeMap, nodeMapKey1s, usesByDef,
                               externalDependencies, jobsBySwiftDeps, job,
                               inOrder(g, order))} :
         /\ jobsBySwiftDeps' = jobsBySwiftDeps \cup {job}
         /\ nodeMap' = r.nodeMap
         /\ nodeMapKey1s' = r.key1s
         /\ usesByDef' = r.usesByDef
         /\ externalDependencies' = r.externalDependencies
         /\ failed' = r.failed
         /\ call' = called("loadFromBuffer", job, g, r.result, r.changedNodes,
                           NoJobs)
  /\ UNCHANGED <<cascadingJobs, dotFileSequenceNumberByJob>>

MarkTransitive(job) ==
  /\ \E r \in {markTransitive(nodeMap, nodeMapKey1s, usesByDef, cascadingJobs,
                                 jobsBySwiftDeps, job)} :
         /\ nodeMapKey1s' = r.key1s
         /\ cascadingJobs' = r.cascadingJobs
         /\ failed' = r.failed
         /\ call' = called("markTransitive", job, NoGraph, "", {},
                           pushBack(NoJobs, r.visited))
  /\ UNCHANGED <<nodeMap, usesByDef, externalDependencies, jobsBySwiftDeps,
                 dotFileSequenceNumberByJob>>

\* markIntransitive that forgets the jobs marked before.
MarkIntransitive_Forgets(job) ==
  /\ cascadingJobs' = {job}
  /\ call' = called("markIntransitive", job, NoGraph,
                    IF job \in cascadingJobs THEN "false" ELSE "true", {},
                    NoJobs)
  /\ UNCHANGED <<nodeMap, nodeMapKey1s, usesByDef, externalDependencies,
                 jobsBySwiftDeps, dotFileSequenceNumberByJob, failed>>

\* markIntransitive that always returns true.
MarkIntransitive_AlwaysTrue(job) ==
  /\ cascadingJobs' = cascadingJobs \cup {job}
  /\ call' = called("markIntransitive", job, NoGraph, "true", {}, NoJobs)
  /\ UNCHANGED <<nodeMap, nodeMapKey1s, usesByDef, externalDependencies,
                 jobsBySwiftDeps, dotFileSequenceNumberByJob, failed>>

\* cascadingJobs.insert(swiftDeps).second
MarkIntransitive(job) ==
  /\ cascadingJobs' = cascadingJobs \cup {job}
  /\ call' = called("markIntransitive", job, NoGraph,
                    IF job \in cascadingJobs THEN "false" ELSE "true", {},
                    NoJobs)
  /\ UNCHANGED <<nodeMap, nodeMapKey1s, usesByDef, externalDependencies,
                 jobsBySwiftDeps, dotFileSequenceNumberByJob, failed>>

MarkExternal(externalDependency, order) ==
  /\ \E r \in {markExternal(nodeMap, nodeMapKey1s, usesByDef, cascadingJobs,
                               jobsBySwiftDeps, order)} :
         /\ nodeMapKey1s' = r.key1s
         /\ cascadingJobs' = r.cascadingJobs
         /\ failed' = r.failed
         /\ call' = called("markExternal", externalDependency, NoGraph, "",
                           {}, r.uses)
  /\ UNCHANGED <<nodeMap, usesByDef, externalDependencies, jobsBySwiftDeps,
                 dotFileSequenceNumberByJob>>

\* A session of two jobs, whose frontend graphs hold an external dependency
\* and a top-level name that either job can declare, with two fingerprints.
SpecJobs == {"A", "B"}
SpecGraphs ==
  [job \in SpecJobs |->
     FrontendGraphs(job, {keyE, keyA}, {"f1", "f2"})]

Next ==
  \/ (failed = "" /\ call.n < MaxCalls) /\ \E job \in SpecJobs :
       LoadFromPathUnreadable(job)
  \/ (failed = "" /\ call.n < MaxCalls) /\ \E job \in SpecJobs :
       LoadFromPathUnparsable(job)
  \/ (failed = "" /\ call.n < MaxCalls) /\ \E job \in SpecJobs :
       LoadFromBufferUnparsable(job)
  \/ (failed = "" /\ call.n < MaxCalls) /\ Verify
  \/ (failed = "" /\ call.n < MaxCalls) /\ \E job \in SpecJobs :
       \E g \in SpecGraphs[job] : \E order \in Perms(g.nodes) :
         LoadFromPath(job, g, order)
  \/ (failed = "" /\ call.n < MaxCalls) /\ \E job \in SpecJobs :
       \E g \in SpecGraphs[job] : \E order \in Perms(g.nodes) :
         LoadFromBuffer(job, g, order)
  \/ (failed = "" /\ call.n < MaxCalls) /\ \E job \in SpecJobs :
       AddIndependentNode(job)
  \/ (failed = "" /\ call.n < MaxCalls) /\ \E job \in SpecJobs :
       MarkTransitive(job)
  \/ (failed = "" /\ call.n < MaxCalls) /\ \E job \in SpecJobs :
       MarkIntransitive(job)
  \/ (failed = "" /\ call.n < MaxCalls) /\ \E name \in ExternalNames :
       \E order \in walkOrders(usersOfExternal(nodeMap, usesByDef, name)) :
         MarkExternal(name, order)

Spec == Init /\ [][Next]_vars

\* The order in which a frontend writes the nodes of a file: the Decls of the
\* file before its dependencies, each in the order of Names.
Names == <<"a", "b", "c", "e">>
nodeRank(n) ==
  (IF n.swiftDeps = NoSwiftDeps THEN Len(Names) ELSE 0)
    + (CHOOSE i \in 1..Len(Names) : Names[i] = getName(n.key))
frontendOrder(nodes) ==
  CHOOSE p \in Perms(nodes) :
    \A i, j \in 1..Len(p) : i < j => nodeRank(p[i]) < nodeRank(p[j])

\* A session of three jobs: A declares a, B declares b and C declares c, each
\* depending on the names of the others; the calls are loads of frontend
\* graphs as the frontend orders them, markTransitive and markIntransitive.
ChainJobs == {"A", "B", "C"}
ChainDecls == [job \in ChainJobs |->
                 IF job = "A" THEN {keyA}
                 ELSE IF job = "B" THEN {keyB} ELSE {keyC}]
ChainGraphs ==
  [job \in ChainJobs |->
     {g \in FrontendGraphs(job, {keyA, keyB, keyC}, {"f1"}) :
        \A n \in g.nodes :
          n.swiftDeps # NoSwiftDeps => n.key \in ChainDecls[job]}]

NextChain ==
  \/ (failed = "" /\ call.n < MaxChainCalls) /\ \E job \in ChainJobs :
       \E g \in ChainGraphs[job] :
         LoadFromBuffer(job, g, frontendOrder(g.nodes))
  \/ (failed = "" /\ call.n < MaxChainCalls) /\ \E job \in ChainJobs :
       MarkTransitive(job)
  \/ (failed = "" /\ call.n < MaxChainCalls) /\ \E job \in ChainJobs :
       MarkIntransitive(job)

SpecChain == Init /\ [][NextChain]_vars

\* A session of two jobs: A declares a and B declares b, each depending on the
\* name of the other and on an external dependency; the calls are loads of
\* frontend graphs as the frontend orders them, markIntransitive and
\* markExternal.
ExternalJobs == {"A", "B"}
ExternalDecls == [job \in ExternalJobs |-> IF job = "A" THEN {keyA} ELSE {keyB}]
ExternalGraphs ==
  [job \in ExternalJobs |->
     {g \in FrontendGraphs(job, {keyE, keyA, keyB}, {"f1"}) :
        \A n \in g.nodes :
          n.swiftDeps # NoSwiftDeps => n.key \in ExternalDecls[job]}]

NextExternal ==
  \/ (failed = "" /\ call.n < MaxChainCalls) /\ \E job \in ExternalJobs :
       \E g \in ExternalGraphs[job] :
         LoadFromBuffer(job, g, frontendOrder(g.nodes))
  \/ (failed = "" /\ call.n < MaxChainCalls) /\ \E job \in ExternalJobs :
       MarkIntransitive(job)
  \/ (failed = "" /\ call.n < MaxChainCalls) /\ \E name \in ExternalNames :
       \E order \in walkOrders(usersOfExternal(nodeMap, usesByDef, name)) :
         MarkExternal(name, order)

SpecExternal == Init /\ [][NextExternal]_vars

\* A session of two jobs, whose frontend graphs hold an external dependency
\* and a top-level name that either job can declare, with two fingerprints;
\* the calls are those that integrate reads the state of: loads of frontend
\* graphs with their nodes in every order, from a path and from a buffer,
\* addIndependentNode and markTransitive.
OrderJobs == {"A", "B"}
OrderGraphs ==
  [job \in OrderJobs |-> FrontendGraphs(job, {keyE, keyA}, {"f1", "f2"})]

NextOrder ==
  \/ (failed = "" /\ call.n < MaxCalls) /\ \E job \in OrderJobs :
       \E g \in OrderGraphs[job] : \E order \in Perms(g.nodes) :
         LoadFromPath(job, g, order)
  \/ (failed = "" /\ call.n < MaxCalls) /\ \E job \in OrderJobs :
       \E g \in OrderGraphs[job] : \E order \in Perms(g.nodes) :
         LoadFromBuffer(job, g, order)
  \/ (failed = "" /\ call.n < MaxCalls) /\ \E job \in OrderJobs :
       AddIndependentNode(job)
  \/ (failed = "" /\ call.n < MaxCalls) /\ \E job \in OrderJobs :
       MarkTransitive(job)

SpecOrder == Init /\ [][NextOrder]_vars

\* ------------------------------------------------------------------------
\* What the calls are checked against.
\* ------------------------------------------------------------------------
\* The last call was a loadFromBuffer that integrated a frontend graph and
\* returned.
integrated ==
  /\ call.op \in {"loadFromBuffer", "loadFromPath"}
  /\ call.result # HadError
  /\ failed = ""

\* The integrands of the frontend graph of the last call for key k.
declsFor(k) == {n \in call.g.nodes : n.key = k /\ n.swiftDeps # NoSwiftDeps}
dependsFor(k) == {n \in call.g.nodes : n.key = k /\ n.swiftDeps = NoSwiftDeps}

\* C1: whatever was integrated, a key that has a node without a file has no
\* node in any file, and the assertion of integrateFrontendNode about it holds.
C1_ExpatExcludesDecls ==
  /\ \A k \in Keys :
       nodeMap[NoSwiftDeps][k] # None => \A j \in Jobs : nodeMap[j][k] = None
  /\ failed # "If there is an expat, must not be any Decls in files."

\* A dependency on a key was integrated while the key had a node without a
\* file, and the key still has that node.
C1_Witness ==
  /\ integrated
  /\ \E k \in Keys : /\ dependsFor(k) # {}
                     /\ call.before[NoSwiftDeps][k] # None
                     /\ nodeMap[NoSwiftDeps][k] # None
                     /\ \E j \in Jobs : j # call.arg /\ nodesOf(nodeMap, j) # {}

\* C2: integrating the frontend graph that was integrated by the call before,
\* for the same job, returns UpToDate and leaves the node map, the uses and
\* the external dependencies as they were.
C2_IntegrateTwice ==
  [][(call'.op = "loadFromBuffer" /\ call'.again /\ call'.result # HadError
        /\ failed' = "")
       => (/\ call'.result = UpToDate
           /\ nodeMap' = nodeMap
           /\ usesByDef' = usesByDef
           /\ externalDependencies' = externalDependencies)]_vars

\* C3: when the job held a Decl for a key and the frontend graph integrated
\* for it holds no Decl for that key, then the job holds no node for the key
\* afterwards, the key is among the changed ones and the result is
\* AffectsDownstream.
C3_Disappearance ==
  integrated =>
    \A k \in Keys :
      (call.before[call.arg][k] # None /\ declsFor(k) = {})
        => (/\ nodeMap[call.arg][k] = None
            /\ k \in call.changedNodes
            /\ call.result = AffectsDownstream)

\* A Decl that the job held is gone after a frontend graph without it.
C3_Witness ==
  /\ integrated
  /\ \E k \in Keys : /\ call.before[call.arg][k] # None
                     /\ declsFor(k) = {}
                     /\ dependsFor(k) = {}
                     /\ nodeMap[call.arg][k] = None

\* C4: when a key has a node without a file and a frontend graph with a Decl
\* for that key is integrated, then the only node of the key is in the file
\* of that graph, with the fingerprint of the Decl, the key is among the
\* changed ones and the result is AffectsDownstream.
C4_Promotion ==
  integrated =>
    \A k \in Keys : \A n \in declsFor(k) :
      call.before[NoSwiftDeps][k] # None
        => (/\ nodesMatching(nodeMap, k) = {call.arg}
            /\ nodeMap[call.arg][k] = n.fingerprint
            /\ k \in call.changedNodes
            /\ call.result = AffectsDownstream)

\* A Decl was integrated for a key that had a node without a file.
C4_Witness ==
  /\ integrated
  /\ \E k \in Keys : /\ declsFor(k) # {}
                     /\ call.before[NoSwiftDeps][k] # None
                     /\ nodeMap[call.arg][k] \in {"f1", "f2"}

\* C5: the jobs that markTransitive hands back for a job do not include that
\* job.
C5_NoSelfCascade ==
  (call.op = "markTransitive" /\ failed = "") => call.uses[call.arg] = 0

\* The nodes reached from the nodes of S along the uses recorded for their
\* keys, in any number of steps.
RECURSIVE reachableFrom(_, _, _)
reachableFrom(nm, ubd, S) ==
  LET next == S \cup UNION {forEachUseOf(nm, ubd, n) : n \in S}
  IN  IF next = S THEN S ELSE reachableFrom(nm, ubd, next)

\* C6: the jobs that markTransitive hands back for a job include every other
\* job that holds a node reached from a node of the job along the uses
\* recorded for the keys.
C6_CascadeTransitive ==
  (call.op = "markTransitive" /\ failed = "") =>
    \A n \in reachableFrom(nodeMap, usesByDef,
                           {<<call.arg, k>> : k \in nodesOf(nodeMap, call.arg)}) :
      n[1] \notin {NoSwiftDeps, call.arg} => call.uses[n[1]] >= 1

\* markTransitive for A, whose a is used by b of B, whose b is used by c of C,
\* handed back B and C.
C6_Witness ==
  /\ call.op = "markTransitive" /\ call.arg = "A" /\ failed = ""
  /\ nodesOf(nodeMap, "A") = {keyA}
  /\ nodesOf(nodeMap, "B") = {keyB}
  /\ nodesOf(nodeMap, "C") = {keyC}
  /\ usesByDef[keyA] = {keyB} /\ usesByDef[keyB] = {keyC}
  /\ call.uses["B"] = 1 /\ call.uses["C"] = 1

\* C7 as stated: markExternal hands back every job that holds a node whose
\* key is recorded as a use of the external dependency.
C7_ExternalUsers ==
  (call.op = "markExternal" /\ failed = "") =>
    \A j \in Jobs :
      (\E u \in usesByDef[createDependedUponKey(call.arg)] :
         nodeMap[j][u] # None)
        => call.uses[j] >= 1

\* C7, amended: markExternal hands back every job that holds a node whose key
\* is recorded as a use of the external dependency, unless the job was marked
\* as cascading when markExternal was called.
C7_ExternalUsersNotMarked ==
  [][(call'.op = "markExternal" /\ failed' = "") =>
       \A j \in Jobs :
         (/\ j \notin cascadingJobs
          /\ \E u \in usesByDef[createDependedUponKey(call'.arg)] :
               nodeMap[j][u] # None)
           => call'.uses[j] >= 1]_vars

\* markExternal handed back a job that had integrated a use of the external
\* dependency.
C7_Witness ==
  /\ call.op = "markExternal" /\ failed = ""
  /\ \E j \in Jobs :
       /\ \E u \in usesByDef[createDependedUponKey(call.arg)] :
            nodeMap[j][u] # None
       /\ call.uses[j] >= 1

\* C8: a load that returns HadError leaves the node map, the uses, the
\* external dependencies, the cascading jobs and the tracked jobs as they
\* were.
C8_LoadErrorChangesNothing ==
  [][call'.result = HadError =>
       UNCHANGED <<nodeMap, nodeMapKey1s, usesByDef, externalDependencies,
                   cascadingJobs, jobsBySwiftDeps>>]_vars

\* A load failed on a graph that holds nodes and marks.
C8_Witness ==
  /\ call.result = HadError
  /\ \E j \in Jobs : nodesOf(nodeMap, j) # {}
  /\ cascadingJobs # {}

\* C9: a job that is marked as cascading stays marked, whatever is called.
C9_CascadingStays == [][cascadingJobs \subseteq cascadingJobs']_vars

\* A marked job was loaded again, with a frontend graph that leaves it no
\* node, and is still marked.
C9_Witness ==
  /\ integrated
  /\ call.arg \in cascadingJobs
  /\ nodesOf(call.before, call.arg) # {}
  /\ nodesOf(nodeMap, call.arg) = {}

\* C10: markIntransitive returns true exactly when the job was not marked,
\* leaves it marked and changes nothing else; called again for the same job
\* it returns false and changes nothing.
C10_MarkIntransitive ==
  [][call'.op = "markIntransitive" =>
       (/\ call'.result = "true" <=> call'.arg \notin cascadingJobs
        /\ call'.result \in {"true", "false"}
        /\ cascadingJobs' = cascadingJobs \cup {call'.arg}
        /\ call'.again => (call'.result = "false"
                             /\ cascadingJobs' = cascadingJobs)
        /\ UNCHANGED <<nodeMap, nodeMapKey1s, usesByDef, externalDependencies,
                       jobsBySwiftDeps, dotFileSequenceNumberByJob,
                       failed>>)]_vars

\* markIntransitive was called twice in a row for one job.
C10_Witness ==
  call.op = "markIntransitive" /\ call.again /\ call.result = "false"

\* C11: a use recorded for a def stays recorded, whatever is called: after the
\* job that brought it integrates fewer uses, and after the nodes of the def
\* or of the use are gone.
C11_UsesStay ==
  [][\A k \in Keys : usesByDef[k] \subseteq usesByDef'[k]]_vars

\* The job that held the node of a use integrated a frontend graph without
\* arcs, the key of the use has no node left, and the use is still recorded.
C11_Witness ==
  /\ integrated
  /\ call.g.arcs = {}
  /\ \E d, u \in Keys : /\ u \in usesByDef[d]
                        /\ call.before[call.arg][u] # None
                        /\ nodesMatching(nodeMap, u) = {}

\* C12: when markTransitive returns, the job of every node with an interface
\* key that is a use of a visited node is marked as cascading.
C12_UseOwnerCascades ==
  (call.op = "markTransitive" /\ failed = "") =>
    \A d \in reachableFrom(nodeMap, usesByDef,
                           {<<call.arg, k>> : k \in nodesOf(nodeMap, call.arg)}) :
      \A u \in forEachUseOf(nodeMap, usesByDef, d) :
        (isInterface(u[2]) /\ u[1] # NoSwiftDeps) => u[1] \in cascadingJobs

\* C13: when a frontend graph of a job holds a dependency on a key for which
\* only that job holds a node, then afterwards the node of the key has no
\* file, the job holds no node for the key and the key is among the changed
\* ones.
C13_Demotion ==
  integrated =>
    \A k \in Keys :
      (/\ dependsFor(k) # {}
       /\ nodesMatching(call.before, k) = {call.arg})
        => (/\ nodeMap[NoSwiftDeps][k] # None
            /\ nodeMap[call.arg][k] = None
            /\ k \in call.changedNodes)

\* What integrateFrontendNode does with a dependency of the last call, on the
\* node map that the call found.
dependIntegrated(n) ==
  integrateFrontendNode(call.before, n, call.arg, NoNode)

\* C15: a dependency on a key that has a node without a file, or nodes in the
\* files of other jobs, is integrated without any change of the node map and
\* without the key counting as changed: the nodes of the key outside the file
\* of the job are as they were, and the key is not among the changed ones
\* unless a node of the job itself disappeared.
C15_DependencyChangesNothing ==
  integrated =>
    \A k \in Keys : \A n \in dependsFor(k) :
      (\/ call.before[NoSwiftDeps][k] # None
       \/ \E j \in Jobs \ {call.arg} : call.before[j][k] # None)
        => (/\ dependIntegrated(n).nodeMap = call.before
            /\ ~dependIntegrated(n).changed
            /\ \A sd \in SwiftDeps \ {call.arg} :
                 nodeMap[sd][k] = call.before[sd][k]
            /\ call.before[call.arg][k] = None
                 => k \notin call.changedNodes)

\* A dependency was integrated on a key that another job holds a Decl for,
\* which is still there.
C15_Witness ==
  /\ integrated
  /\ \E k \in Keys :
       /\ dependsFor(k) # {}
       /\ \E j \in Jobs \ {call.arg} : /\ call.before[j][k] # None
                                       /\ nodeMap[j][k] = call.before[j][k]
       /\ k \notin call.changedNodes

\* C16: in whatever order the nodes of the frontend graph are integrated, the
\* result, the changed keys and the graph afterwards are the same.
C16_OrderIndependent ==
  [][(call'.op \in {"loadFromBuffer", "loadFromPath"}
        /\ call'.result # HadError) =>
       \A order \in Perms(call'.g.nodes) :
         \E r \in {IF call'.op = "loadFromPath"
                   THEN loadFromPath(nodeMap, nodeMapKey1s, usesByDef,
                                     externalDependencies, jobsBySwiftDeps,
                                     call'.arg, inOrder(call'.g, order))
                   ELSE loadFromBuffer(nodeMap, nodeMapKey1s, usesByDef,
                                       externalDependencies, jobsBySwiftDeps,
                                       call'.arg, inOrder(call'.g, order))} :
           /\ r.nodeMap = nodeMap'
           /\ r.key1s = nodeMapKey1s'
           /\ r.usesByDef = usesByDef'
           /\ r.externalDependencies = externalDependencies'
           /\ r.changedNodes = call'.changedNodes
           /\ r.result = call'.result
           /\ r.failed = failed']_vars

\* A frontend graph of two nodes was integrated and both keys changed.
C16_Witness ==
  /\ integrated
  /\ Cardinality(call.g.nodes) = 2
  /\ Cardinality(call.changedNodes) = 2

\* C17: after every integration the name of every node with the key of an
\* external dependency is in externalDependencies, the assertion of verify
\* about it holds, and externalDependencies loses no name.
C17_ExternalDependenciesTracked ==
  [][/\ \A sd \in SwiftDeps : \A k \in nodesOf(nodeMap', sd) :
          getKind(k) = "externalDepend" => getName(k) \in externalDependencies'
     /\ externalDependencies \subseteq externalDependencies'
     /\ failed' # "Ensure each external dependency is tracked exactly once"]_vars

\* The job that brought an external dependency integrated a frontend graph
\* without it, and the name is still tracked.
C17_Witness ==
  /\ integrated
  /\ \A n \in call.g.nodes : getKind(n.key) # "externalDepend"
  /\ usesByDef[keyE] # {}
  /\ \A u \in usesByDef[keyE] : call.before[call.arg][u] # None
  /\ getName(keyE) \in externalDependencies
  /\ nodeMap[NoSwiftDeps][keyE] # None

\* The traversal of the last markTransitive; it reads the node map and the
\* uses, which markTransitive leaves as they are.
traversed ==
  markTransitive(nodeMap, nodeMapKey1s, usesByDef, cascadingJobs, jobsBySwiftDeps,
                 call.arg)

\* C18: the traversal of markTransitive ends, also where the uses go round in
\* a circle, and no node gets past the test of visited twice: the nodes that
\* did are the visited ones, each once, and they are nodes of the node map.
C18_ExpandedOnce ==
  call.op = "markTransitive" =>
    /\ \A i, j \in 1..Len(traversed.expanded) :
         i # j => traversed.expanded[i] # traversed.expanded[j]
    /\ {traversed.expanded[i] : i \in 1..Len(traversed.expanded)}
         = traversed.visitedNodeSet
    /\ \A n \in traversed.visitedNodeSet : nodeMap[n[1]][n[2]] # None

\* markTransitive returned for a job whose Decl uses, and is used by, the
\* Decl of another job, which it handed back.
C18_Witness ==
  /\ call.op = "markTransitive" /\ failed = ""
  /\ \E k1, k2 \in Keys : \E j \in Jobs \ {call.arg} :
       /\ k1 \in usesByDef[k2] /\ k2 \in usesByDef[k1]
       /\ nodeMap[call.arg][k1] # None /\ nodeMap[j][k2] # None
       /\ call.uses[j] = 1
       /\ Len(traversed.expanded) = 2

\* C19: markExternal hands back no job twice, and hands back nothing when the
\* only job that uses the external dependency was marked as cascading when
\* markExternal was called.
C19_ExternalResultIsSet ==
  [][(call'.op = "markExternal" /\ failed' = "") =>
       \A j \in Jobs :
         /\ call'.uses[j] <= 1
         /\ (/\ j \in cascadingJobs
             /\ \A n \in usersOfExternal(nodeMap, usesByDef, call'.arg) :
                  n[1] = j)
              => call'.uses[j] = 0]_vars

\* C20: the assertion of checkTransitiveClosureForCascading that the node
\* has a swiftDeps never fails.
C20_OnlyDeclNodes == failed # "Should only call me for Decl nodes."

====
